---- MODULE Spec2Model ----
(***************************************************************************)
(* A model of base64-secret (src/lib.rs): a base64 codec whose alphabet is *)
(* the url-safe alphabet sorted by CRC32 weights derived from a key.       *)
(*                                                                         *)
(* Characters and bytes are their ASCII / byte values; a string or a byte  *)
(* slice is a sequence of them.  The Base64 instance, the strings the      *)
(* caller holds and the results of its calls are the state; every public   *)
(* operation of Base64 is one action.                                      *)
(***************************************************************************)
EXTENDS Integers, Sequences, FiniteSets, TLC

(***************************************************************************)
(* Bounds of the model.                                                    *)
(***************************************************************************)
MaxKeyLen == 1

MaxPlainLen == 3

MaxDecodeLen == 4

(***************************************************************************)
(* Sequences over a set, up to a length.                                   *)
(***************************************************************************)
SeqsUpTo(S, n) == UNION {[1..m -> S] : m \in 0..n}

Reverse(s) == [i \in 1..Len(s) |-> s[Len(s) + 1 - i]]

(***************************************************************************)
(* u32 arithmetic.  A u32 is the pair <<hi, lo>> of its 16-bit halves, so  *)
(* that every intermediate value stays a small integer and the 32-bit      *)
(* width is kept.  Folds over bytes and bits split their range in two and  *)
(* finish the first half before they start the second, which keeps the     *)
(* evaluation shallow.                                                     *)
(***************************************************************************)
Half == 2 ^ 16

U32Zero == <<0, 0>>

\* 0xFFFFFFFF
U32Max == <<65535, 65535>>

XorBit(a, b, k) == (((a \div (2 ^ k)) + (b \div (2 ^ k))) % 2) * (2 ^ k)

Xor8(a, b) ==
    XorBit(a, b, 0) + XorBit(a, b, 1) + XorBit(a, b, 2) + XorBit(a, b, 3)
        + XorBit(a, b, 4) + XorBit(a, b, 5) + XorBit(a, b, 6) + XorBit(a, b, 7)

Xor16(a, b) == Xor8(a % 256, b % 256) + 256 * Xor8(a \div 256, b \div 256)

Xor32(a, b) == <<Xor16(a[1], b[1]), Xor16(a[2], b[2])>>

Shr1(a) == <<a[1] \div 2, (a[1] % 2) * (Half \div 2) + a[2] \div 2>>

Shr8(a) == <<a[1] \div 256, (a[1] % 256) * 256 + a[2] \div 256>>

Lt32(a, b) == a[1] < b[1] \/ (a[1] = b[1] /\ a[2] < b[2])

Sub32(a, b) ==
    IF a[2] >= b[2]
    THEN <<a[1] - b[1], a[2] - b[2]>>
    ELSE <<a[1] - b[1] - 1, a[2] + Half - b[2]>>

\* bit k (31 the highest) of a
Bit32(a, k) ==
    IF k >= 16 THEN (a[1] \div (2 ^ (k - 16))) % 2 ELSE (a[2] \div (2 ^ k)) % 2

\* one step of binary long division by b: the remainder r so far, shifted
\* left with the next bit of the dividend, less b when that is not below b
RemStep(r, bit, b) ==
    LET lo == 2 * r[2] + bit
        t == <<2 * r[1] + lo \div Half, lo % Half>>
    IN  IF Lt32(t, b) THEN t ELSE Sub32(t, b)

\* the remainder r after the bits hi, hi - 1, ..., lo of a
RECURSIVE RemRange(_, _, _, _, _)
RemRange(a, b, r, hi, lo) ==
    IF hi = lo THEN RemStep(r, Bit32(a, hi), b)
    ELSE LET mid == (hi + lo + 1) \div 2
         IN  CHOOSE res \in {RemRange(a, b, v, mid - 1, lo) :
                                v \in {RemRange(a, b, r, hi, mid)}} : TRUE

\* a % b, for b # 0
Rem32(a, b) == RemRange(a, b, U32Zero, 31, 0)

(***************************************************************************)
(* crc32fast::hash: the IEEE CRC-32 (reflected polynomial 0xEDB88320,      *)
(* initial value and final xor 0xFFFFFFFF), a table lookup for each byte.  *)
(***************************************************************************)
\* 0xEDB88320
CrcPoly == <<60856, 33568>>

CrcShift(c) == IF c[2] % 2 = 1 THEN Xor32(Shr1(c), CrcPoly) ELSE Shr1(c)

CrcTable ==
    [i \in 0..255 |->
        CrcShift(CrcShift(CrcShift(CrcShift(
            CrcShift(CrcShift(CrcShift(CrcShift(<<0, i>>))))))))] @@ <<>>

\* crc = table[(crc ^ byte) & 0xFF] ^ (crc >> 8)
CrcByte(c, byte) == Xor32(CrcTable[Xor8(c[2] % 256, byte)], Shr8(c))

\* the register c after the bytes lo..hi
RECURSIVE CrcRange(_, _, _, _)
CrcRange(c, bytes, lo, hi) ==
    IF lo > hi THEN c
    ELSE IF lo = hi THEN CrcByte(c, bytes[lo])
    ELSE LET mid == (lo + hi) \div 2
         IN  CHOOSE res \in {CrcRange(v, bytes, mid + 1, hi) :
                                v \in {CrcRange(c, bytes, lo, mid)}} : TRUE

crc32fast_hash(bytes) ==
    Xor32(CrcRange(U32Max, bytes, 1, Len(bytes)), U32Max)

(***************************************************************************)
(* The keys the model constructs instances from.                           *)
(***************************************************************************)
\* "test"
KeyTest == <<116, 101, 115, 116>>

\* "test1"
KeyTest1 == <<116, 101, 115, 116, 49>>

\* "long and random key\0test\0"
KeyLong ==
    <<108, 111, 110, 103, 32, 97, 110, 100, 32, 114, 97, 110, 100, 111, 109,
      32, 107, 101, 121, 0, 116, 101, 115, 116, 0>>

\* "my secret key"
KeySecret == <<109, 121, 32, 115, 101, 99, 114, 101, 116, 32, 107, 101, 121>>

\* a key whose CRC32 is 0 (the CRC32 of its reverse is not)
KeyZeroHash == <<157, 10, 217, 109>>

\* a key whose CRC32 is 2: the weights of the even-indexed symbols are 0 or 1
KeyTies == <<94, 0, 74, 0>>

KeyBytes == {0, 116}

Keys ==
    {KeyTest, KeyTest1, KeyLong, KeySecret, KeyZeroHash, Reverse(KeyZeroHash),
     KeyTies}
        \cup SeqsUpTo(KeyBytes, MaxKeyLen)

(***************************************************************************)
(* Base64::get_alphabet.                                                   *)
(***************************************************************************)
\* "ABCDEFGHIJKLMNOPQRSTUVWXYZabcdefghijklmnopqrstuvwxyz0123456789+/"
CanonicalStandard ==
    [i \in 1..26 |-> 64 + i] \o [i \in 1..26 |-> 96 + i]
        \o [i \in 1..10 |-> 47 + i] \o <<43, 47>>

\* "ABCDEFGHIJKLMNOPQRSTUVWXYZabcdefghijklmnopqrstuvwxyz0123456789-_"
Canonical ==
    [i \in 1..26 |-> 64 + i] \o [i \in 1..26 |-> 96 + i]
        \o [i \in 1..10 |-> 47 + i] \o <<45, 95>>

\* crc32fast::hash(c.to_string().as_bytes()) of every symbol
SymbolHash ==
    [i \in 1..Len(Canonical) |-> crc32fast_hash(<<Canonical[i]>>)] @@ <<>>

\* the two divisors: hash and rev_hash
KeyHashes(key) ==
    [hash |-> crc32fast_hash(key), rev_hash |-> crc32fast_hash(Reverse(key))]

\* the hashes of every key of the model (@@ <<>> makes a table an explicit
\* function, computed once)
HashTable == [k \in Keys |-> KeyHashes(k)] @@ <<>>

\* if i % 2 == 0 { hash } else { rev_hash }, for the 0-based index i
DivisorSwapped(i, hs) == IF i % 2 = 0 THEN hs.rev_hash ELSE hs.hash

Divisor(i, hs) == IF i % 2 = 0 THEN hs.hash ELSE hs.rev_hash

\* u32 % u32 panics on a zero divisor
RemPanics(hs) == \E i \in 0..(Len(Canonical) - 1) : Divisor(i, hs) = U32Zero

\* the (char, u32) pair of the symbol at 0-based index i
WeightNoKey(i, hs) == <<Canonical[i + 1], SymbolHash[i + 1]>>

Weight(i, hs) ==
    <<Canonical[i + 1], Rem32(SymbolHash[i + 1], Divisor(i, hs))>>

\* the comparator |a, b| b.1.cmp(&a.1): a orders before b when b's weight
\* is less than a's
is_less_ascending(a, b) == Lt32(a[2], b[2])

is_less_or_equal(a, b) == ~Lt32(a[2], b[2])

is_less(a, b) == Lt32(b[2], a[2])

\* sort_by is the standard library's stable merge sort.  Merging two sorted
\* runs takes the element of the right run only when it is less than the
\* element of the left run: an element of the left run goes behind the
\* elements of the right run that are less than it, an element of the right
\* run behind the elements of the left run that it is not less than.
LeftPos(l, r, i) ==
    i + Cardinality({j \in 1..Len(r) : is_less(r[j], l[i])})

RightPos(l, r, j) ==
    j + Cardinality({i \in 1..Len(l) : ~is_less(r[j], l[i])})

\* (\o <<>> makes a sequence an explicit tuple, computed once)
Merge(l, r) ==
    LET lp == [i \in 1..Len(l) |-> LeftPos(l, r, i)] \o <<>>
        rp == [j \in 1..Len(r) |-> RightPos(l, r, j)] \o <<>>
    IN  [p \in 1..(Len(l) + Len(r)) |->
            IF \E i \in 1..Len(l) : lp[i] = p
            THEN l[CHOOSE i \in 1..Len(l) : lp[i] = p]
            ELSE r[CHOOSE j \in 1..Len(r) : rp[j] = p]] \o <<>>

RECURSIVE SortRange(_, _, _)
SortRange(v, lo, hi) ==
    IF lo > hi THEN <<>>
    ELSE IF lo = hi THEN <<v[lo]>>
    ELSE LET mid == (lo + hi) \div 2
         IN  CHOOSE res \in {Merge(l, r) : l \in {SortRange(v, lo, mid)},
                                            r \in {SortRange(v, mid + 1, hi)}} :
                 TRUE

sort_by(v) == SortRange(v, 1, Len(v))

\* get_alphabet(key): a panic (the remainder by zero), or the symbols in
\* the sorted order
get_alphabet(key) ==
    LET hs == KeyHashes(key)
    IN  IF RemPanics(hs)
        THEN [panic |-> TRUE, alphabet |-> <<>>]
        ELSE LET pairs == [i \in 1..Len(Canonical) |-> Weight(i - 1, hs)] \o <<>>
                 sorted == sort_by(pairs)
             IN  [panic |-> FALSE,
                  alphabet |-> [p \in 1..Len(sorted) |-> sorted[p][1]] \o <<>>]

\* get_alphabet of every key of the model
AlphabetTable == [k \in Keys |-> get_alphabet(k)] @@ <<>>

(***************************************************************************)
(* The base64 engine Base64 wraps: alphabet::Alphabet, the configuration   *)
(* of Base64::new, and engine::GeneralPurpose's encode and decode.         *)
(***************************************************************************)
ALPHABET_SIZE == 64

\* '='
PAD_BYTE == 61

INVALID_VALUE == 255

\* Alphabet::new accepts 64 distinct printable ASCII bytes, none of them '='
AlphabetNewOk(str) ==
    /\ Len(str) = ALPHABET_SIZE
    /\ \A i \in 1..Len(str) : str[i] >= 32 /\ str[i] <= 126 /\ str[i] # PAD_BYTE
    /\ \A i, j \in 1..Len(str) : str[i] = str[j] => i = j

\* the configuration Base64::new builds
ConfigEncodePadding ==
    [decode_allow_trailing_bits |-> FALSE,
     encode_padding |-> TRUE,
     decode_padding_mode |-> "RequireNone"]

ConfigAllowTrailingBits ==
    [decode_allow_trailing_bits |-> TRUE,
     encode_padding |-> FALSE,
     decode_padding_mode |-> "RequireNone"]

ConfigIndifferent ==
    [decode_allow_trailing_bits |-> FALSE,
     encode_padding |-> FALSE,
     decode_padding_mode |-> "Indifferent"]

GeneralPurposeConfig ==
    [decode_allow_trailing_bits |-> FALSE,
     encode_padding |-> FALSE,
     decode_padding_mode |-> "RequireNone"]

NoEngine == [alphabet |-> <<>>, config |-> GeneralPurposeConfig]

\* Base64::new(key): the instance, or the panic that ends the call
Base64_new(key) ==
    LET derived == AlphabetTable[key]
    IN  IF derived.panic
        THEN [panic |-> "remainder by zero", engine |-> NoEngine]
        ELSE IF ~AlphabetNewOk(derived.alphabet)
        THEN [panic |-> "alphabet", engine |-> NoEngine]
        ELSE [panic |-> "",
              engine |-> [alphabet |-> derived.alphabet,
                          config |-> GeneralPurposeConfig]]

\* Base64::new of every key of the model
NewTable == [k \in Keys |-> Base64_new(k)] @@ <<>>

\* the engine's decode table: the 6-bit value of a byte, or INVALID_VALUE
decode_table_short(alphabet, b) ==
    IF \E i \in 1..(Len(alphabet) - 1) : alphabet[i] = b
    THEN (CHOOSE i \in 1..(Len(alphabet) - 1) : alphabet[i] = b) - 1
    ELSE INVALID_VALUE

decode_table(alphabet, b) ==
    IF \E i \in 1..Len(alphabet) : alphabet[i] = b
    THEN (CHOOSE i \in 1..Len(alphabet) : alphabet[i] = b) - 1
    ELSE INVALID_VALUE

\* the four symbols of three bytes
EncodeChunk(alphabet, b1, b2, b3) ==
    <<alphabet[b1 \div 4 + 1],
      alphabet[(b1 % 4) * 16 + b2 \div 16 + 1],
      alphabet[(b2 % 16) * 4 + b3 \div 64 + 1],
      alphabet[(b3 % 64) + 1]>>

\* the symbols of the one or two bytes left after the complete chunks
EncodeRestLowBitsLost(alphabet, rest) ==
    IF Len(rest) = 1
    THEN <<alphabet[rest[1] \div 4 + 1], alphabet[1]>>
    ELSE IF Len(rest) = 2
    THEN <<alphabet[rest[1] \div 4 + 1],
           alphabet[(rest[1] % 4) * 16 + rest[2] \div 16 + 1],
           alphabet[1]>>
    ELSE <<>>

EncodeRest(alphabet, rest) ==
    IF Len(rest) = 1
    THEN <<alphabet[rest[1] \div 4 + 1], alphabet[(rest[1] % 4) * 16 + 1]>>
    ELSE IF Len(rest) = 2
    THEN <<alphabet[rest[1] \div 4 + 1],
           alphabet[(rest[1] % 4) * 16 + rest[2] \div 16 + 1],
           alphabet[(rest[2] % 16) * 4 + 1]>>
    ELSE <<>>

\* Base64::encode: engine.encode(input)
encode(engine, input) ==
    LET n == Len(input)
        full == n \div 3
        chunks == [j \in 1..(4 * full) |->
                      LET q == (j - 1) \div 4
                      IN  EncodeChunk(engine.alphabet, input[3 * q + 1],
                                      input[3 * q + 2], input[3 * q + 3])
                              [((j - 1) % 4) + 1]]
        rest == EncodeRest(engine.alphabet, SubSeq(input, 3 * full + 1, n))
        pad == IF engine.config.encode_padding
               THEN [j \in 1..((3 - (n % 3)) % 3) |-> PAD_BYTE]
               ELSE <<>>
    IN  chunks \o rest \o pad

\* Result<Vec<u8>, DecodeError>
Ok(bytes) == [kind |-> "Ok", bytes |-> bytes, offset |-> 0, byte |-> 0]

Err(kind, offset, byte) ==
    [kind |-> kind, bytes |-> <<>>, offset |-> offset, byte |-> byte]

\* the 24 bits of up to four 6-bit values, packed from the left
Pack(morsels) ==
    LET m == morsels \o <<0, 0, 0, 0>>
    IN  m[1] * (2 ^ 18) + m[2] * (2 ^ 12) + m[3] * (2 ^ 6) + m[4]

\* the first n of the three bytes of 24 bits
Unpack(bits, n) ==
    SubSeq(<<bits \div (2 ^ 16), (bits \div 256) % 256, bits % 256>>, 1, n)

\* the loop of decode_suffix over the at most four last bytes, from the
\* 0-based leftover_index i; start is the offset of the suffix in the input
RECURSIVE SuffixLoop(_, _, _, _, _)
SuffixLoop(alphabet, leftover, start, i, st) ==
    IF i = Len(leftover) THEN st
    ELSE LET b == leftover[i + 1]
             morsel == decode_table(alphabet, b)
         IN  IF b = PAD_BYTE
             THEN IF i < 2
                  THEN [st EXCEPT !.err = Err("InvalidByte", start + i, b)]
                  ELSE SuffixLoop(alphabet, leftover, start, i + 1,
                           [st EXCEPT
                               !.first_padding_offset =
                                   IF st.padding_bytes_count = 0 THEN i ELSE @,
                               !.padding_bytes_count = @ + 1])
             ELSE IF st.padding_bytes_count > 0
             THEN [st EXCEPT !.err =
                      Err("InvalidByte", start + st.first_padding_offset,
                          PAD_BYTE)]
             ELSE IF morsel = INVALID_VALUE
             THEN [st EXCEPT !.err = Err("InvalidByte", start + i, b)]
             ELSE SuffixLoop(alphabet, leftover, start, i + 1,
                      [st EXCEPT !.morsels = Append(@, morsel),
                                 !.last_symbol = b])

\* decode_suffix: the last, possibly incomplete or padded, group; output
\* is what the complete groups before it decoded to
decode_suffix(engine, input, start, output) ==
    LET st == SuffixLoop(engine.alphabet, SubSeq(input, start + 1, Len(input)),
                         start, 0,
                         [morsels |-> <<>>, padding_bytes_count |-> 0,
                          first_padding_offset |-> 0, last_symbol |-> 0,
                          err |-> Ok(<<>>)])
        morsels_in_leftover == Len(st.morsels)
        leftover_bytes_to_append == (morsels_in_leftover * 6) \div 8
        leftover_num == Pack(st.morsels)
        mask_bits == 24 - 8 * leftover_bytes_to_append
    IN  IF st.err.kind # "Ok" THEN st.err
        ELSE IF input # <<>> /\ morsels_in_leftover < 2
        THEN Err("InvalidLength", start + morsels_in_leftover, 0)
        ELSE IF engine.config.decode_padding_mode = "RequireCanonical"
                /\ (st.padding_bytes_count + morsels_in_leftover) % 4 # 0
        THEN Err("InvalidPadding", 0, 0)
        ELSE IF engine.config.decode_padding_mode = "RequireNone"
                /\ st.padding_bytes_count > 0
        THEN Err("InvalidPadding", 0, 0)
        ELSE IF ~engine.config.decode_allow_trailing_bits
                /\ leftover_num % (2 ^ mask_bits) # 0
        THEN Err("InvalidLastSymbol", start + morsels_in_leftover - 1,
                 st.last_symbol)
        ELSE Ok(output \o Unpack(leftover_num, leftover_bytes_to_append))

\* Base64::decode: engine.decode(input).  A lone trailing byte that is no
\* symbol is reported first; then the complete groups before the last are
\* decoded in order; then the last group by decode_suffix.
decode(engine, input) ==
    LET n == Len(input)
        rem == n % 4
        quads_len == IF n = 0 THEN 0 ELSE n - (IF rem = 0 THEN 4 ELSE rem)
        morsel(i) == decode_table(engine.alphabet, input[i])
        bad == {i \in 1..quads_len : morsel(i) = INVALID_VALUE}
        first_bad == CHOOSE i \in bad : \A j \in bad : i <= j
        output == [j \in 1..(3 * (quads_len \div 4)) |->
                      LET q == (j - 1) \div 3
                      IN  Unpack(Pack(<<morsel(4 * q + 1), morsel(4 * q + 2),
                                        morsel(4 * q + 3), morsel(4 * q + 4)>>),
                                 3)[((j - 1) % 3) + 1]]
    IN  IF rem = 1 /\ input[n] # PAD_BYTE /\ morsel(n) = INVALID_VALUE
        THEN Err("InvalidByte", n - 1, input[n])
        ELSE IF bad # {}
        THEN Err("InvalidByte", first_bad - 1, input[first_bad])
        ELSE decode_suffix(engine, input, quads_len, output)

(***************************************************************************)
(* The inputs of the calls.                                                *)
(***************************************************************************)
\* "test"
PlainTest == <<116, 101, 115, 116>>

PlainBytes == {0, 116, 255}

Plains == {PlainTest} \cup SeqsUpTo(PlainBytes, MaxPlainLen)

\* "t0mvt-"
ExpectedData == <<116, 48, 109, 118, 116, 45>>

\* 't', '0', '=' and '!', which is in no alphabet
DecodeChars == {116, 48, 61, 33}

\* the expected data whole, cut short, extended, and with one character
\* replaced by '=' or '!'
FixedInputs ==
    {SubSeq(ExpectedData, 1, n) : n \in 0..Len(ExpectedData)}
        \cup {[ExpectedData EXCEPT ![i] = c] :
                 i \in 1..Len(ExpectedData), c \in {61, 33}}
        \cup {ExpectedData \o t :
                 t \in {<<61>>, <<61, 61>>, <<116, 48>>, <<116, 48, 61>>,
                        <<116, 48, 109>>, <<116, 48, 33>>}}

DecodeInputs == FixedInputs \cup SeqsUpTo(DecodeChars, MaxDecodeLen)

(***************************************************************************)
(* The state: the key (secret) and the Base64 instance built from it       *)
(* (base64), the panic that ended the program (if any), the last encode    *)
(* call whose result the caller holds, and the last decode call.           *)
(***************************************************************************)
VARIABLES secret, base64, panic, enc, dec

vars == <<secret, base64, panic, enc, dec>>

NoEnc == [some |-> FALSE, key |-> <<>>, input |-> <<>>, output |-> <<>>]

NoDec ==
    [some |-> FALSE, of_enc |-> FALSE, input |-> <<>>, result |-> Ok(<<>>)]

Init ==
    /\ secret = <<>>
    /\ base64 = NoEngine
    /\ panic = ""
    /\ enc = NoEnc
    /\ dec = NoDec

Ready == panic = "" /\ base64 # NoEngine

\* the caller holds no string of an earlier call
Idle == ~enc.some /\ ~dec.some

\* let x = Base64::new(k): the instance replaces the one the caller had;
\* a panic ends the program
New(k) ==
    /\ panic = ""
    /\ secret' = k
    /\ base64' = NewTable[k].engine
    /\ panic' = NewTable[k].panic
    /\ dec' = NoDec
    /\ UNCHANGED enc

\* let encoded = x.encode(b)
Encode(b) ==
    /\ Ready
    /\ Idle
    /\ enc' = [some |-> TRUE, key |-> secret, input |-> b,
               output |-> encode(base64, b)]
    /\ UNCHANGED <<secret, base64, panic, dec>>

\* x.decode(encoded.as_bytes()), of the string the last encode returned
DecodeEncoded ==
    /\ Ready
    /\ enc.some
    /\ ~dec.some
    /\ dec' = [some |-> TRUE, of_enc |-> TRUE, input |-> enc.output,
               result |-> decode(base64, enc.output)]
    /\ UNCHANGED <<secret, base64, panic, enc>>

\* x.decode(s), of a string of the caller's own
Decode(s) ==
    /\ Ready
    /\ Idle
    /\ dec' = [some |-> TRUE, of_enc |-> FALSE, input |-> s,
               result |-> decode(base64, s)]
    /\ UNCHANGED <<secret, base64, panic, enc>>

\* the strings the caller holds go out of scope
Drop ==
    /\ panic = ""
    /\ ~Idle
    /\ enc' = NoEnc
    /\ dec' = NoDec
    /\ UNCHANGED <<secret, base64, panic>>

Next ==
    \/ \E k \in Keys : New(k)
    \/ \E b \in Plains : Encode(b)
    \/ DecodeEncoded
    \/ \E s \in DecodeInputs : Decode(s)
    \/ Drop

Spec == Init /\ [][Next]_vars

(***************************************************************************)
(* The properties of the specification, each stated over the state machine  *)
(* above.                                                                    *)
(***************************************************************************)

\* the 64 symbols A-Z a-z 0-9 - _
CanonicalSet == (65..90) \cup (97..122) \cup (48..57) \cup {45, 95}

Symbols(str) == {str[i] : i \in 1..Len(str)}

\* the instance that produced the pending encoding
Encoder == NewTable[enc.key].engine

\* a decode of the pending encoding has returned
Decoded == dec.some /\ dec.of_enc

SameKey == Decoded /\ enc.key = secret

WrongKey == Decoded /\ enc.key # secret

\* the 6-bit value a symbol has in the alphabet of the current instance
ValueOf(c) == (CHOOSE i \in 1..Len(base64.alphabet) : base64.alphabet[i] = c) - 1

\* C1: decoding what an instance encoded, with an instance of the same key,
\* returns exactly the bytes that were encoded, the empty input included.
RoundTrip == SameKey => dec.result = Ok(enc.input)

RoundTripReached ==
    /\ SameKey
    /\ secret = KeyTest
    /\ enc.input = PlainTest
    /\ dec.result = Ok(PlainTest)

\* C2: the alphabet of every constructed instance is a permutation of the
\* canonical set: 64 symbols, pairwise distinct, each of A-Z a-z 0-9 - _,
\* so the alphabet constructor never rejects it.
AlphabetIsPermutation ==
    /\ panic # "alphabet"
    /\ Ready =>
          /\ Len(base64.alphabet) = 64
          /\ Symbols(base64.alphabet) = CanonicalSet
          /\ Cardinality(Symbols(base64.alphabet)) = 64

AlphabetIsPermutationReached ==
    /\ Ready
    /\ secret = KeyTies
    /\ base64.alphabet # Canonical
    /\ Symbols(base64.alphabet) = CanonicalSet

\* C3: constructing an instance returns for every key, the empty key and
\* the keys whose CRC32 is zero included: no construction panics.
ConstructionNeverPanics == panic = ""

\* the 6-bit group g (from 0) of the input, zero bits after the last byte
Bit(bytes, k) ==
    IF k \div 8 < Len(bytes)
    THEN (bytes[k \div 8 + 1] \div (2 ^ (7 - (k % 8)))) % 2
    ELSE 0

Group(bytes, g) ==
    32 * Bit(bytes, 6 * g) + 16 * Bit(bytes, 6 * g + 1)
        + 8 * Bit(bytes, 6 * g + 2) + 4 * Bit(bytes, 6 * g + 3)
        + 2 * Bit(bytes, 6 * g + 4) + Bit(bytes, 6 * g + 5)

\* C4: the encoding of n bytes has ceil(8n/6) characters, the character at
\* position j is the alphabet's symbol for the j-th 6-bit group of the
\* input (the last group filled with zero bits), and no character is '='.
EncodeUnpadded ==
    enc.some =>
        /\ Len(enc.output) = (8 * Len(enc.input) + 5) \div 6
        /\ \A j \in 1..Len(enc.output) :
              /\ enc.output[j] = Encoder.alphabet[Group(enc.input, j - 1) + 1]
              /\ enc.output[j] # PAD_BYTE

EncodeUnpaddedReached ==
    /\ enc.some
    /\ enc.key = KeyTest
    /\ enc.input = PlainTest
    /\ Len(enc.output) = 6

\* the bits of the last symbol that belong to no decoded byte are not all
\* zero, read in the alphabet of the current instance
TrailingBitsSet ==
    LET rest == Len(enc.input) % 3
        last == ValueOf(enc.output[Len(enc.output)])
    IN  \/ rest = 1 /\ last % 16 # 0
        \/ rest = 2 /\ last % 4 # 0

\* C5 as stated: for two different keys and a non-empty input, decoding
\* with the first key succeeds and decoding with the second returns an error.
WrongKeyAlwaysRejected ==
    (Decoded /\ enc.input # <<>>) =>
        IF enc.key = secret
        THEN dec.result.kind = "Ok"
        ELSE dec.result.kind # "Ok"

\* C5: for a non-empty input, decoding with the key that encoded succeeds;
\* decoding with another key returns an error exactly when the input length
\* is not a multiple of 3 and the last symbol has non-zero trailing bits in
\* the other key's alphabet, and returns Ok otherwise; it returns an error
\* for the keys "test" and "test1" and the input "test".
WrongKeyRejectedOnTrailingBits ==
    (Decoded /\ enc.input # <<>>) =>
        /\ enc.key = secret => dec.result.kind = "Ok"
        /\ enc.key # secret => (dec.result.kind # "Ok" <=> TrailingBitsSet)
        /\ (enc.key = KeyTest /\ secret = KeyTest1 /\ enc.input = PlainTest)
              => dec.result.kind # "Ok"

WrongKeyRejectedReached ==
    /\ WrongKey
    /\ enc.key = KeyTest
    /\ secret = KeyTest1
    /\ enc.input = PlainTest
    /\ dec.result.kind # "Ok"

\* C6 as stated: a decode with the wrong key that fails, fails on a symbol
\* outside the alphabet (InvalidByte).
WrongKeyFailsInvalidByte ==
    (WrongKey /\ dec.result.kind # "Ok") => dec.result.kind = "InvalidByte"

\* C6: a decode with the wrong key that fails, fails on the trailing bits
\* of the last symbol (InvalidLastSymbol at the last position); every
\* symbol of the encoding is in the alphabet of the other key.
WrongKeyFailsInvalidLastSymbol ==
    WrongKey =>
        /\ Symbols(enc.output) \subseteq Symbols(base64.alphabet)
        /\ dec.result.kind # "Ok" =>
              dec.result = Err("InvalidLastSymbol", Len(enc.output) - 1,
                               enc.output[Len(enc.output)])

WrongKeyFailsReached ==
    /\ WrongKey
    /\ enc.key = KeyTest
    /\ secret = KeyTest1
    /\ enc.input = PlainTest
    /\ dec.result.kind = "InvalidLastSymbol"

\* C7: with the 52-byte key of the regression test, decoding "t0mvt-"
\* returns Ok("test").
ExpectedDataDecodes ==
    (dec.some /\ secret = KeyLong /\ dec.input = ExpectedData)
        => dec.result = Ok(PlainTest)

ExpectedDataDecodesReached ==
    /\ dec.some
    /\ ~dec.of_enc
    /\ secret = KeyLong
    /\ dec.input = ExpectedData
    /\ dec.result = Ok(PlainTest)

\* the position of the first '=' of a string that has one
FirstPad(str) ==
    CHOOSE p \in 1..Len(str) :
        str[p] = PAD_BYTE /\ \A q \in 1..(p - 1) : str[q] # PAD_BYTE

\* symbols of the alphabet, 2 or 3 of them after the last complete group
\* of four, followed by nothing but '=' up to the end of that group at most
PadsOnlyCloseLastGroup(str) ==
    LET p == FirstPad(str)
    IN  /\ \A q \in 1..(p - 1) : str[q] \in Symbols(base64.alphabet)
        /\ \A q \in p..Len(str) : str[q] = PAD_BYTE
        /\ (p - 1) % 4 \in {2, 3}
        /\ Len(str) - (p - 1) <= 4 - ((p - 1) % 4)

\* C8 as stated: an input with a '=' anywhere is rejected with
\* InvalidPadding.
PadAlwaysInvalidPadding ==
    (dec.some /\ PAD_BYTE \in Symbols(dec.input))
        => dec.result.kind = "InvalidPadding"

\* C8: an input with a '=' anywhere is rejected; the error is InvalidPadding
\* exactly when the '=' only close the last group of four after 2 or 3
\* symbols of the alphabet, and InvalidByte otherwise.
PadAlwaysRejected ==
    (dec.some /\ PAD_BYTE \in Symbols(dec.input)) =>
        /\ dec.result.kind \in {"InvalidPadding", "InvalidByte"}
        /\ dec.result.kind = "InvalidPadding"
              <=> PadsOnlyCloseLastGroup(dec.input)

PadAlwaysRejectedReached ==
    /\ dec.some
    /\ secret = KeyLong
    /\ dec.input = ExpectedData \o <<PAD_BYTE, PAD_BYTE>>
    /\ dec.result.kind = "InvalidPadding"

\* the position (from 0) of a symbol in the canonical string
CanonicalIndex ==
    [c \in CanonicalSet |->
        (CHOOSE i \in 1..Len(Canonical) : Canonical[i] = c) - 1] @@ <<>>

\* the weight of the symbol at canonical position i under a key: the CRC32
\* of the symbol modulo the CRC32 of the key for even i, of the reversed
\* key for odd i
WeightUnder(k, i) ==
    Rem32(crc32fast_hash(<<Canonical[i + 1]>>),
          IF i % 2 = 0
          THEN crc32fast_hash(k)
          ELSE crc32fast_hash(Reverse(k)))

\* the weights of the canonical symbols under every key that has them
WeightsUnder ==
    [k \in {q \in Keys : NewTable[q].panic = ""} |->
        [i \in 1..Len(Canonical) |-> WeightUnder(k, i - 1)] \o <<>>] @@ <<>>

\* C9: the alphabet lists the canonical symbols by descending weight, and
\* symbols of equal weight in the order of the canonical string.
AlphabetByDescendingWeight ==
    Ready =>
        \A p \in 1..(Len(base64.alphabet) - 1) :
            LET i == CanonicalIndex[base64.alphabet[p]]
                j == CanonicalIndex[base64.alphabet[p + 1]]
                wi == WeightsUnder[secret][i + 1]
                wj == WeightsUnder[secret][j + 1]
            IN  /\ ~Lt32(wi, wj)
                /\ wi = wj => i < j

\* an instance whose key gives equal weights to several symbols
AlphabetByDescendingWeightReached ==
    /\ Ready
    /\ secret = KeyTies
    /\ \E p \in 1..(Len(base64.alphabet) - 1) :
          /\ WeightsUnder[secret][CanonicalIndex[base64.alphabet[p]] + 1]
                = WeightsUnder[secret][CanonicalIndex[base64.alphabet[p + 1]] + 1]
          /\ CanonicalIndex[base64.alphabet[p]]
                < CanonicalIndex[base64.alphabet[p + 1]]

\* C10: a string that decodes to bytes is the encoding of those bytes: it
\* has no '=', its length is not 1 modulo 4, and encoding the bytes gives
\* the string back.
DecodeIsCanonical ==
    (dec.some /\ dec.result.kind = "Ok") =>
        /\ encode(base64, dec.result.bytes) = dec.input
        /\ PAD_BYTE \notin Symbols(dec.input)
        /\ Len(dec.input) % 4 # 1

DecodeIsCanonicalReached ==
    /\ dec.some
    /\ ~dec.of_enc
    /\ dec.result.kind = "Ok"
    /\ Len(dec.input) = 3
    /\ Len(dec.result.bytes) = 2

====
